---- MODULE Spec2Model ----
(***************************************************************************)
(* AWS tag audit (src/main.py): the disk cache around the paginated        *)
(* Resource Groups Tagging API calls, the tagging facade, the two policy   *)
(* checks and the driver loop over profiles x regions.                     *)
(*                                                                         *)
(* Python strings are sequences of one-character strings, so that          *)
(* str.replace, f-string concatenation and sorted() are computed as the    *)
(* code computes them.  None is the record [none |-> TRUE].                *)
(***************************************************************************)
EXTENDS Naturals, Sequences, FiniteSets, TLC

VARIABLES
    disk,        \* ./data: cache file path -> file content (JSON tokens)
    out_ok,      \* environment: whether ./output can be created and written
    output,      \* ./output: report file path -> YAML document
    printed,     \* the lines print() has written, in order
    pc,          \* position of the running code
    pair,        \* index of the (profile, region) pair of the driver loop
    tag_keys,    \* get_keys_with_values: the sorted key list being iterated
    key_idx,     \* get_keys_with_values: index of the next key
    results,     \* get_keys_with_values: key -> values accumulated so far
    resources,   \* main: result of get_resources / input of the policy check
    missing,     \* result of get_missing_required_tags
    std_values,  \* main: standard_tags_values / input of the policy check
    invalid,     \* result of get_invalid_standard_tag_values
    exc,         \* the exception in flight (NoExc when none)
    lastCall,    \* history: the last call of the cached fetcher
    firstRet     \* history: identity -> data its first completed call returned

vars == <<disk, out_ok, output, printed, pc, pair, tag_keys, key_idx, results,
          resources, missing, std_values, invalid, exc, lastCall, firstRet>>

----------------------------------------------------------------------------
(* Bounds of the model *)

\* pages one paginated call delivers at most
MaxPages == 2
\* resources in one input of get_missing_required_tags at most
MaxResources == 2
\* values per tag in one input of get_invalid_standard_tag_values at most
MaxValues == 2

----------------------------------------------------------------------------
(* Python values *)

None == [none |-> TRUE]
Some(v) == [none |-> FALSE, val |-> v]

\* the characters the model's strings use, in code point order
Alphabet == <<"+","-",".","/","0","1","2","3","4","5","6","7","8","9","=","@",
              "A","B","C","D","E","F","G","H","I","J","K","L","M","N","O","P",
              "Q","R","S","T","U","V","W","X","Y","Z","_",
              "a","b","c","d","e","f","g","h","i","j","k","l","m","n","o","p",
              "q","r","s","t","u","v","w","x","y","z">>

CharCode(c) == CHOOSE i \in 1..Len(Alphabet) : Alphabet[i] = c

\* s < t for Python strings: lexicographic by code point
RECURSIVE str_lt(_, _)
str_lt(s, t) ==
    IF s = <<>> THEN t # <<>>
    ELSE IF t = <<>> THEN FALSE
    ELSE IF Head(s) = Head(t) THEN str_lt(Tail(s), Tail(t))
    ELSE CharCode(Head(s)) < CharCode(Head(t))

\* key.replace(old, new) for a one-character old
RECURSIVE str_replace(_, _, _)
str_replace(s, old, new) ==
    IF s = <<>> THEN <<>>
    ELSE <<IF Head(s) = old THEN new ELSE Head(s)>> \o str_replace(Tail(s), old, new)

RECURSIVE insert_sorted(_, _)
insert_sorted(x, s) ==
    IF s = <<>> THEN <<x>>
    ELSE IF str_lt(Head(s), x) THEN <<Head(s)>> \o insert_sorted(x, Tail(s))
    ELSE <<x>> \o s

\* sorted(value) on a list of strings (stable, ascending)
RECURSIVE sorted(_)
sorted(value) ==
    IF value = <<>> THEN <<>> ELSE insert_sorted(Head(value), sorted(Tail(value)))

\* a mutant of sort: the list is returned as fetched
sort_unsorted(value) == value

\* the @sort decorator: the wrapped function's value, sorted
sort(value) == sorted(value)

----------------------------------------------------------------------------
(* Exceptions *)

NoExc == [type |-> "none", code |-> ""]
ClientError(code) == [type |-> "ClientError", code |-> code]
AccessDenied == ClientError("AccessDeniedException")
Throttling == ClientError("ThrottlingException")
\* botocore.exceptions.EndpointConnectionError: a BotoCoreError, no .response
EndpointConnectionError == [type |-> "EndpointConnectionError", code |-> ""]
TypeError == [type |-> "TypeError", code |-> ""]
JSONDecodeError == [type |-> "JSONDecodeError", code |-> ""]
PermissionError == [type |-> "PermissionError", code |-> ""]
AttributeError == [type |-> "AttributeError", code |-> ""]

\* the errors a paginated SDK call raises
ProviderErrors == {AccessDenied, Throttling, EndpointConnectionError}

----------------------------------------------------------------------------
(* Strings of the program *)

client_type == <<"r","e","s","o","u","r","c","e","g","r","o","u","p","s",
                 "t","a","g","g","i","n","g","a","p","i">>
get_tag_keys == <<"g","e","t","_","t","a","g","_","k","e","y","s">>
get_tag_values == <<"g","e","t","_","t","a","g","_","v","a","l","u","e","s">>
get_resources == <<"g","e","t","_","r","e","s","o","u","r","c","e","s">>
base_dir == <<".","/","d","a","t","a","/">>
dot_json == <<".","j","s","o","n">>
key_infix == <<"_","K","e","y","=">>

----------------------------------------------------------------------------
(* Disk cache *)

\* kwargs.get('Key')
kwargs_get_key(kwargs) == IF "Key" \in DOMAIN kwargs THEN Some(kwargs.Key) ELSE None

\* `if key:` is false for None and for the empty string
truthy(key) == ~key.none /\ key.val # <<>>

build_filepath(region_name, profile_name, ctype, method, key) ==
    LET filename == region_name \o <<"/">> \o profile_name \o <<"/">> \o ctype
                    \o <<"/">> \o method
        keyed == IF truthy(key)
                 THEN filename \o key_infix \o str_replace(key.val, "/", "+")
                 ELSE filename
    IN base_dir \o (keyed \o dot_json)

\* a mutant of check_file_exists: path.isdir is asked instead of path.isfile,
\* and a cache file is no directory
check_file_exists_isdir(d, filepath) == FALSE

\* path.isfile(filepath)
check_file_exists(d, filepath) == filepath \in DOMAIN d

\* JSON text as tokens
LB == [t |-> "["]
RB == [t |-> "]"]
COMMA == [t |-> ","]
JVal(x) == [t |-> "value", v |-> x]

RECURSIVE json_items(_)
json_items(data) ==
    IF data = <<>> THEN <<>>
    ELSE IF Len(data) = 1 THEN <<JVal(data[1])>>
    ELSE <<JVal(data[1]), COMMA>> \o json_items(Tail(data))

\* json.dump(data, f) of a list
json_dump(data) == <<LB>> \o json_items(data) \o <<RB>>

\* the items between the brackets: value (, value)*; ok is FALSE when malformed
RECURSIVE parse_items(_)
parse_items(toks) ==
    IF toks = <<>> THEN [ok |-> TRUE, value |-> <<>>]
    ELSE IF toks[1].t # "value" THEN [ok |-> FALSE, value |-> <<>>]
    ELSE IF Len(toks) = 1 THEN [ok |-> TRUE, value |-> <<toks[1].v>>]
    ELSE IF toks[2].t # "," \/ Len(toks) = 2 THEN [ok |-> FALSE, value |-> <<>>]
    ELSE LET rest == parse_items(SubSeq(toks, 3, Len(toks)))
         IN [ok |-> rest.ok, value |-> IF rest.ok THEN <<toks[1].v>> \o rest.value ELSE <<>>]

\* json.load(f): the list, or JSONDecodeError
json_load(text) ==
    IF Len(text) < 2 \/ text[1] # LB \/ text[Len(text)] # RB
    THEN [exc |-> JSONDecodeError, value |-> <<>>]
    ELSE LET r == parse_items(SubSeq(text, 2, Len(text) - 1))
         IN [exc |-> IF r.ok THEN NoExc ELSE JSONDecodeError, value |-> r.value]

read_from_file(d, filepath) == json_load(d[filepath])

\* open(filepath, 'w+') truncates; json.dump writes the whole document
write_to_file(d, filepath, data) ==
    [p \in DOMAIN d \cup {filepath} |-> IF p = filepath THEN json_dump(data) ELSE d[p]]

----------------------------------------------------------------------------
(* Paginating fetcher *)

\* page.get(list_key)
page_get(page, list_key) ==
    IF list_key \in DOMAIN page THEN Some(page[list_key]) ELSE None

\* the for loop over paginator.paginate(): pages is what the iterator still
\* yields, raise is what it raises after them (NoExc: it is exhausted)
RECURSIVE paginate_loop(_, _, _, _)
paginate_loop(pages, raise, list_key, acc) ==
    IF pages = <<>> THEN [exc |-> raise, value |-> acc]
    ELSE LET items == page_get(Head(pages), list_key)
         IN IF items.none
            THEN [exc |-> TypeError, value |-> acc]
            ELSE paginate_loop(Tail(pages), raise, list_key, acc \o items.val)

\* TaggingApi._paginator, the function @local_cache wraps; outcome is the behaviour of
\* the provider's page iterator for this call
_paginator(outcome, list_key) ==
    paginate_loop(outcome.pages, outcome.raise, list_key, <<>>)

\* the identity of a call of the cached fetcher
Identity(session, method, kwargs) ==
    [region_name |-> session.region_name, profile_name |-> session.profile_name,
     client_type |-> client_type, method |-> method, Key |-> kwargs_get_key(kwargs)]

identity_path(id) ==
    build_filepath(id.region_name, id.profile_name, id.client_type, id.method, id.Key)

\* a mutant of local_cache: the file is not consulted, every call computes
local_cache_always_computes(d, session, method, list_key, kwargs, outcome) ==
    LET filepath == identity_path(Identity(session, method, kwargs))
        r == _paginator(outcome, list_key)
    IN IF r.exc # NoExc
       THEN [exc |-> r.exc, value |-> <<>>, disk |-> d, computed |-> TRUE]
       ELSE [exc |-> NoExc, value |-> r.value,
             disk |-> write_to_file(d, filepath, r.value), computed |-> TRUE]

\* a mutant of local_cache: whatever the fetcher produced before it failed is
\* written to the cache file
local_cache_writes_partial(d, session, method, list_key, kwargs, outcome) ==
    LET filepath == identity_path(Identity(session, method, kwargs))
    IN IF check_file_exists(d, filepath)
       THEN LET r == read_from_file(d, filepath)
            IN [exc |-> r.exc, value |-> r.value, disk |-> d, computed |-> FALSE]
       ELSE LET r == _paginator(outcome, list_key)
            IN [exc |-> r.exc, value |-> IF r.exc = NoExc THEN r.value ELSE <<>>,
                disk |-> write_to_file(d, filepath, r.value), computed |-> TRUE]

\* @local_cache around _paginator: the value returned or the exception
\* raised, the disk afterwards, and whether the wrapped function ran
local_cache(d, session, method, list_key, kwargs, outcome) ==
    LET key == kwargs_get_key(kwargs)
        filepath == build_filepath(session.region_name, session.profile_name,
                                   client_type, method, key)
    IN IF check_file_exists(d, filepath)
       THEN LET r == read_from_file(d, filepath)
            IN [exc |-> r.exc, value |-> r.value, disk |-> d, computed |-> FALSE]
       ELSE LET r == _paginator(outcome, list_key)
            IN IF r.exc # NoExc
               THEN [exc |-> r.exc, value |-> <<>>, disk |-> d, computed |-> TRUE]
               ELSE [exc |-> NoExc, value |-> r.value,
                     disk |-> write_to_file(d, filepath, r.value), computed |-> TRUE]

----------------------------------------------------------------------------
(* Tagging facade *)

NoKwargs == [k \in {} |-> <<>>]
KeyKwargs(key) == [Key |-> key]

\* a facade call's outcome: the fetch (exc, value, disk, computed) and ret,
\* the value the facade method returns
facade_result(r, ret) ==
    [exc |-> r.exc, value |-> r.value, disk |-> r.disk, computed |-> r.computed,
     ret |-> IF r.exc = NoExc THEN ret ELSE <<>>]

get_keys(d, session, outcome) ==
    LET r == local_cache(d, session, get_tag_keys, "TagKeys", NoKwargs, outcome)
    IN facade_result(r, sort(r.value))

get_values(d, session, key, outcome) ==
    LET r == local_cache(d, session, get_tag_values, "TagValues", KeyKwargs(key), outcome)
    IN facade_result(r, sort(r.value))

api_get_resources(d, session, outcome) ==
    LET r == local_cache(d, session, get_resources, "ResourceTagMappingList", NoKwargs, outcome)
    IN facade_result(r, r.value)

EmptyDict == [k \in {} |-> <<>>]

\* dict[key] = value
dict_set(dict, key, value) ==
    [k \in DOMAIN dict \cup {key} |-> IF k = key THEN value ELSE dict[k]]

\* dict.get(key): None when the key is absent
dict_get(dict, key) == IF key \in DOMAIN dict THEN Some(dict[key]) ELSE None

----------------------------------------------------------------------------
(* Policy checks *)

Name == <<"N","a","m","e">>
Environment == <<"E","n","v","i","r","o","n","m","e","n","t">>
Project == <<"P","r","o","j","e","c","t">>
Department == <<"D","e","p","a","r","t","m","e","n","t">>
Contact == <<"C","o","n","t","a","c","t">>
Management == <<"M","a","n","a","g","e","m","e","n","t">>
MonitoringFlag == <<"M","o","n","i","t","o","r","i","n","g","F","l","a","g">>
Environments == <<"E","n","v","i","r","o","n","m","e","n","t","s">>
staging == <<"s","t","a","g","i","n","g">>
production == <<"p","r","o","d","u","c","t","i","o","n">>
dev == <<"d","e","v">>
qa == <<"q","a">>

STANDARD_TAGS == <<Name, Environment, Project, Department, Contact, Management, MonitoringFlag>>
REQUIRED_TAGS == <<Name, Environment, Project, Department, Contact>>

Range(seq) == {seq[i] : i \in 1..Len(seq)}

\* validate_email(check_regex=True, check_mx=False): the syntax check of the
\* external library, as far as the model's addresses need it: one "@", a
\* local part, and a domain with an inner "."
is_valid_email(email) ==
    LET ats == {i \in 1..Len(email) : email[i] = "@"}
    IN /\ Cardinality(ats) = 1
       /\ LET at == CHOOSE i \in ats : TRUE
          IN at > 1 /\ \E j \in (at + 2)..(Len(email) - 1) : email[j] = "."

allowed_environment(env) == env \in {staging, production, dev}

\* the dict invalid_values that get_invalid_standard_tag_values accumulates;
\* an input value is Some(list) or None (the tag's value is None)
invalid_values_of(standard_tags_values) ==
    LET contacts == IF Contact \in DOMAIN standard_tags_values
                    THEN standard_tags_values[Contact] ELSE Some(<<>>)
        invalid_contacts == IF contacts.none THEN <<>>
                            ELSE SelectSeq(contacts.val, LAMBDA c : ~is_valid_email(c))
        d1 == IF Len(invalid_contacts) > 0
              THEN dict_set(EmptyDict, Contact, invalid_contacts) ELSE EmptyDict
        environments == IF Environments \in DOMAIN standard_tags_values
                        THEN standard_tags_values[Environments] ELSE Some(<<>>)
        invalid_environment == IF environments.none THEN <<>>
                               ELSE SelectSeq(environments.val, LAMBDA e : ~allowed_environment(e))
    IN IF Len(invalid_environment) > 0
       THEN dict_set(d1, Environments, invalid_environment) ELSE d1

\* the function ends without a return statement: its value is None
get_invalid_standard_tag_values(standard_tags_values) ==
    LET invalid_values == invalid_values_of(standard_tags_values)
    IN None

\* a mutant of missing_of: the missing tags are listed from the last required
\* tag to the first
missing_of_reversed(resource) ==
    LET required_tags_keys ==
            {resource.Tags[i].Key : i \in 1..Len(resource.Tags)} \cap Range(REQUIRED_TAGS)
        m == SelectSeq(REQUIRED_TAGS, LAMBDA d : d \notin required_tags_keys)
    IN [i \in 1..Len(m) |-> m[Len(m) + 1 - i]]

\* missing_required_tags of one resource (the body of the for loop)
missing_of(resource) ==
    LET required_tags == SelectSeq(resource.Tags, LAMBDA d : d.Key \in Range(REQUIRED_TAGS))
        required_tags_keys == {required_tags[i].Key : i \in 1..Len(required_tags)}
    IN SelectSeq(REQUIRED_TAGS, LAMBDA d : d \notin required_tags_keys)

RECURSIVE missing_loop(_, _)
missing_loop(rs, missing_tags) ==
    IF rs = <<>> THEN missing_tags
    ELSE LET missing_required_tags == missing_of(Head(rs))
         IN missing_loop(Tail(rs),
                IF Len(missing_required_tags) > 0
                THEN dict_set(missing_tags, Head(rs).ResourceARN, missing_required_tags)
                ELSE missing_tags)

get_missing_required_tags(rs) == missing_loop(rs, EmptyDict)

----------------------------------------------------------------------------
(* Report writer *)

output_dir == <<"o","u","t","p","u","t">>
dot_yaml == <<".","y","a","m","l">>
n_missing_required_tags == <<"m","i","s","s","i","n","g","_","r","e","q","u","i","r","e","d","_","t","a","g","s">>
n_standard_tags_values == <<"s","t","a","n","d","a","r","d","_","t","a","g","s","_","v","a","l","u","e","s">>
n_invalid_standard_tag_values == <<"i","n","v","a","l","i","d","_","s","t","a","n","d","a","r","d","_","t","a","g","_","v","a","l","u","e","s">>

yaml_dump(value) == [yaml |-> value]

report_path(profile, key) ==
    output_dir \o <<"/">> \o profile \o <<"_">> \o key \o dot_yaml

\* write_to_yaml(profile, **kwargs): ok says whether ./output can be created
\* and its files opened for writing; otherwise makedirs or open raises
write_to_yaml(out, ok, profile, kwargs) ==
    IF ~ok THEN [exc |-> PermissionError, output |-> out]
    ELSE [exc |-> NoExc,
          output |-> [p \in DOMAIN out \cup {report_path(profile, k) : k \in DOMAIN kwargs} |->
                        IF \E k \in DOMAIN kwargs : p = report_path(profile, k)
                        THEN yaml_dump(kwargs[CHOOSE k \in DOMAIN kwargs : p = report_path(profile, k)])
                        ELSE out[p]]]

----------------------------------------------------------------------------
(* The provider and the environment *)

p1 == <<"p","1">>
p2 == <<"p","2">>
r1 == <<"r","1">>
r2 == <<"r","2">>

Session(profile, region) == [profile_name |-> profile, region_name |-> region]

\* tag keys that differ only by "/" versus "+"
KeySlash == <<"a","/","b">>
KeyPlus == <<"a","+","b">>

arn1 == <<"a","r","n","1">>
arn2 == <<"a","r","n","2">>
arn3 == <<"a","r","n","3">>

Res(arn, tagkeys) ==
    [ResourceARN |-> arn,
     Tags |-> [i \in 1..Len(tagkeys) |-> [Key |-> tagkeys[i], Value |-> dev]]]

\* pages of one item each
Pages(list_key, items) == {[k \in {list_key} |-> <<x>>] : x \in items}

PageSeqs(P) == UNION {[1..n -> P] : n \in 0..MaxPages}

\* the page iterator is not created: the call is served from the cache
NotInvoked == [pages |-> <<>>, raise |-> NoExc]

\* what the provider's page iterator may do in one call: deliver pages, then
\* be exhausted (NoExc) or raise
Outcomes(list_key, items, errors) ==
    {[pages |-> ps, raise |-> e] :
        ps \in PageSeqs(Pages(list_key, items)), e \in {NoExc} \cup errors}

\* the provider acts only in a call that finds no cache file
WhenInvoked(d, session, method, kwargs, outcomes) ==
    IF check_file_exists(d, identity_path(Identity(session, method, kwargs)))
    THEN {NotInvoked} ELSE outcomes

\* a cache file a killed run left truncated
Truncated == <<LB>>

EmptyDisk == [p \in {} |-> <<>>]

CorruptDisk(session, method) ==
    [p \in {identity_path(Identity(session, method, NoKwargs))} |-> Truncated]

NoCall == [id |-> None, facade |-> "", hit |-> FALSE, computed |-> FALSE,
           repeat |-> FALSE, exc |-> NoExc, value |-> <<>>, ret |-> <<>>]

\* the history of a call of the cached fetcher
CallRecord(d, fr, session, method, kwargs, facade, r) ==
    LET id == Identity(session, method, kwargs)
    IN [id |-> Some(id), facade |-> facade,
        hit |-> check_file_exists(d, identity_path(id)),
        computed |-> r.computed, repeat |-> id \in DOMAIN fr,
        exc |-> r.exc, value |-> r.value, ret |-> r.ret]

FirstRet(fr, session, method, kwargs, r) ==
    LET id == Identity(session, method, kwargs)
    IN IF r.exc = NoExc /\ id \notin DOMAIN fr
       THEN [i \in DOMAIN fr \cup {id} |-> IF i = id THEN r.value ELSE fr[i]]
       ELSE fr

----------------------------------------------------------------------------
(* SpecApi: a caller of the facade of one session *)

ApiSession == Session(p1, r1)
ApiKeys == {KeySlash, KeyPlus}
ApiValues == {dev, qa}
ApiResources == {Res(arn1, <<Name>>)}
ApiErrors == {Throttling}

mainVars == <<out_ok, output, printed, pair, resources, missing, std_values, invalid, exc>>

InitApi ==
    /\ disk \in {EmptyDisk, CorruptDisk(ApiSession, get_resources)}
    /\ out_ok = TRUE
    /\ output = EmptyDict
    /\ printed = <<>>
    /\ pc = "idle"
    /\ pair = 0
    /\ tag_keys = <<>>
    /\ key_idx = 0
    /\ results = EmptyDict
    /\ resources = <<>>
    /\ missing = EmptyDict
    /\ std_values = EmptyDict
    /\ invalid = None
    /\ exc = NoExc
    /\ lastCall = NoCall
    /\ firstRet = EmptyDict

\* api.get_keys()
ApiGetKeys ==
    /\ pc = "idle"
    /\ \E o \in WhenInvoked(disk, ApiSession, get_tag_keys, NoKwargs,
                            Outcomes("TagKeys", ApiKeys, ApiErrors)) :
       \E r \in {get_keys(disk, ApiSession, o)} :
            /\ disk' = r.disk
            /\ lastCall' = CallRecord(disk, firstRet, ApiSession, get_tag_keys, NoKwargs, "get_keys", r)
            /\ firstRet' = FirstRet(firstRet, ApiSession, get_tag_keys, NoKwargs, r)
    /\ UNCHANGED <<pc, tag_keys, key_idx, results>>
    /\ UNCHANGED mainVars

\* api.get_values(key)
ApiGetValues ==
    /\ pc = "idle"
    /\ \E key \in ApiKeys :
       \E o \in WhenInvoked(disk, ApiSession, get_tag_values, KeyKwargs(key),
                            Outcomes("TagValues", ApiValues, ApiErrors)) :
       \E r \in {get_values(disk, ApiSession, key, o)} :
            /\ disk' = r.disk
            /\ lastCall' = CallRecord(disk, firstRet, ApiSession, get_tag_values, KeyKwargs(key), "get_values", r)
            /\ firstRet' = FirstRet(firstRet, ApiSession, get_tag_values, KeyKwargs(key), r)
    /\ UNCHANGED <<pc, tag_keys, key_idx, results>>
    /\ UNCHANGED mainVars

\* api.get_resources()
ApiGetResources ==
    /\ pc = "idle"
    /\ \E o \in WhenInvoked(disk, ApiSession, get_resources, NoKwargs,
                            Outcomes("ResourceTagMappingList", ApiResources, ApiErrors)) :
       \E r \in {api_get_resources(disk, ApiSession, o)} :
            /\ disk' = r.disk
            /\ lastCall' = CallRecord(disk, firstRet, ApiSession, get_resources, NoKwargs, "get_resources", r)
            /\ firstRet' = FirstRet(firstRet, ApiSession, get_resources, NoKwargs, r)
    /\ UNCHANGED <<pc, tag_keys, key_idx, results>>
    /\ UNCHANGED mainVars

\* api.get_keys_with_values(), up to the for loop: tag_keys = self.get_keys()
ApiKeysWithValuesBegin ==
    /\ pc = "idle"
    /\ \E o \in WhenInvoked(disk, ApiSession, get_tag_keys, NoKwargs,
                            Outcomes("TagKeys", ApiKeys, ApiErrors)) :
       \E r \in {get_keys(disk, ApiSession, o)} :
            /\ disk' = r.disk
            /\ lastCall' = CallRecord(disk, firstRet, ApiSession, get_tag_keys, NoKwargs, "get_keys", r)
            /\ firstRet' = FirstRet(firstRet, ApiSession, get_tag_keys, NoKwargs, r)
            /\ results' = EmptyDict
            /\ IF r.exc = NoExc /\ r.ret # <<>>
               THEN pc' = "kwv" /\ tag_keys' = r.ret /\ key_idx' = 1
               ELSE pc' = "idle" /\ tag_keys' = <<>> /\ key_idx' = 0
    /\ UNCHANGED mainVars

\* one iteration of the for loop of get_keys_with_values
ApiKeysWithValuesStep ==
    /\ pc = "kwv"
    /\ \E o \in WhenInvoked(disk, ApiSession, get_tag_values, KeyKwargs(tag_keys[key_idx]),
                            Outcomes("TagValues", ApiValues, ApiErrors)) :
       \E r \in {get_values(disk, ApiSession, tag_keys[key_idx], o)} :
            /\ disk' = r.disk
            /\ lastCall' = CallRecord(disk, firstRet, ApiSession, get_tag_values,
                                      KeyKwargs(tag_keys[key_idx]), "get_values", r)
            /\ firstRet' = FirstRet(firstRet, ApiSession, get_tag_values,
                                    KeyKwargs(tag_keys[key_idx]), r)
            /\ results' = IF r.exc = NoExc
                          THEN dict_set(results, tag_keys[key_idx], r.ret) ELSE EmptyDict
            /\ IF r.exc = NoExc /\ key_idx < Len(tag_keys)
               THEN pc' = "kwv" /\ tag_keys' = tag_keys /\ key_idx' = key_idx + 1
               ELSE pc' = "idle" /\ tag_keys' = <<>> /\ key_idx' = 0
    /\ UNCHANGED mainVars

NextApi ==
    \/ ApiGetKeys
    \/ ApiGetValues
    \/ ApiGetResources
    \/ ApiKeysWithValuesBegin
    \/ ApiKeysWithValuesStep

SpecApi == InitApi /\ [][NextApi]_vars

----------------------------------------------------------------------------
(* Driver *)

exclude_list ==
    {<<"o","k","t","a">>,
     <<"g","i","t","o","p","s">>,
     <<"m","a","r","t","i","a","n","-","o","t","t","-","n","o","n","p","r","o","d">>,
     <<"m","a","r","t","i","a","n","-","o","t","t","-","p","r","o","d">>,
     <<"f","o","x","s","p","o","r","t","s","-","s","h","a","r","e","d","-","s","e","r","v","i","c","e","s">>,
     <<"d","e","v">>,
     <<"f","o","x","s","p","o","r","t","s","-","o","l","y","m","p","u","s","-","n","o","n","p","r","o","d">>,
     <<"f","o","x","s","p","o","r","t","s","-","o","l","y","m","p","u","s","-","p","r","o","d">>}

\* session.available_profiles: the locally configured profiles
available_profiles == <<p1, dev, p2>>

get_profiles == SelectSeq(available_profiles, LAMBDA p : p \notin exclude_list)

\* the RegionName of every region describe_regions returns
get_regions == <<r1, r2>>

NumPairs == Len(get_profiles) * Len(get_regions)

\* the i-th pair of `for profile in profiles: for region in regions`
PairAt(i) ==
    [profile |-> get_profiles[((i - 1) \div Len(get_regions)) + 1],
     region |-> get_regions[((i - 1) % Len(get_regions)) + 1]]

PairSession(i) == Session(PairAt(i).profile, PairAt(i).region)

HeaderLine(i) == [kind |-> "header", profile |-> PairAt(i).profile, region |-> PairAt(i).region]

ExceptionLine(i, e) ==
    [kind |-> "exception", profile |-> PairAt(i).profile, region |-> PairAt(i).region,
     error |-> e]

\* what the provider answers in a run of the driver: the account's data, or
\* an error before the first page
MainOutcomes(list_key, items) ==
    {[pages |-> <<[k \in {list_key} |-> items]>>, raise |-> NoExc]}
    \cup {[pages |-> <<>>, raise |-> e] : e \in ProviderErrors}

\* a mutant of has_response: every exception is taken to carry a response
has_response_always(e) == TRUE

\* whether identifier.response exists: botocore's ClientError carries the
\* parsed error response, other exceptions have no such attribute
has_response(e) == e.type = "ClientError"

\* identifier.response.get("Error", {}).get("Code")
error_code_of(e) == e.code

\* a mutant of is_suppressed: the code is compared with another spelling
is_suppressed_other_code(error_code) == error_code = "AccessDenied"

\* the negation of `error_code != "AccessDeniedException"`
is_suppressed(error_code) == error_code = "AccessDeniedException"

\* the AttributeError raised inside the except clause; context is the
\* exception that was being handled
AttributeErrorIn(e) == [type |-> "AttributeError", code |-> "", context |-> e]

\* pc after the body of the loop has ended for pair i
AfterPair(i) == IF i < NumPairs THEN "for" ELSE "done"

Init ==
    /\ disk \in {EmptyDisk, CorruptDisk(Session(p1, r2), get_tag_keys)}
    /\ out_ok \in BOOLEAN
    /\ output = EmptyDict
    /\ printed = <<>>
    /\ pc = "for"
    /\ pair = 1
    /\ tag_keys = <<>>
    /\ key_idx = 0
    /\ results = EmptyDict
    /\ resources = <<>>
    /\ missing = EmptyDict
    /\ std_values = EmptyDict
    /\ invalid = None
    /\ exc = NoExc
    /\ lastCall = NoCall
    /\ firstRet = EmptyDict

\* lines 165-167: print the header, create the session and the TaggingApi
BeginPair ==
    /\ pc = "for"
    /\ printed' = Append(printed, HeaderLine(pair))
    /\ pc' = "get_keys"
    /\ UNCHANGED <<disk, out_ok, output, pair, tag_keys, key_idx, results, resources,
                   missing, std_values, invalid, exc, lastCall, firstRet>>

\* line 168, get_keys_with_values up to its for loop
MainGetKeys ==
    /\ pc = "get_keys"
    /\ \E o \in WhenInvoked(disk, PairSession(pair), get_tag_keys, NoKwargs,
                            MainOutcomes("TagKeys", <<Name, Contact>>)) :
       \E r \in {get_keys(disk, PairSession(pair), o)} :
            /\ disk' = r.disk
            /\ lastCall' = CallRecord(disk, firstRet, PairSession(pair), get_tag_keys, NoKwargs, "get_keys", r)
            /\ firstRet' = FirstRet(firstRet, PairSession(pair), get_tag_keys, NoKwargs, r)
            /\ exc' = r.exc
            /\ IF r.exc # NoExc
               THEN pc' = "except" /\ UNCHANGED <<tag_keys, key_idx, results>>
               ELSE /\ tag_keys' = r.ret
                    /\ key_idx' = 1
                    /\ results' = EmptyDict
                    /\ pc' = IF r.ret = <<>> THEN "get_resources" ELSE "get_values"
    /\ UNCHANGED <<out_ok, output, printed, pair, resources, missing, std_values, invalid>>

\* line 168, one iteration of the for loop of get_keys_with_values
MainGetValues ==
    /\ pc = "get_values"
    /\ \E o \in WhenInvoked(disk, PairSession(pair), get_tag_values, KeyKwargs(tag_keys[key_idx]),
                            MainOutcomes("TagValues", <<dev>>)) :
       \E r \in {get_values(disk, PairSession(pair), tag_keys[key_idx], o)} :
            /\ disk' = r.disk
            /\ lastCall' = CallRecord(disk, firstRet, PairSession(pair), get_tag_values,
                                      KeyKwargs(tag_keys[key_idx]), "get_values", r)
            /\ firstRet' = FirstRet(firstRet, PairSession(pair), get_tag_values,
                                    KeyKwargs(tag_keys[key_idx]), r)
            /\ exc' = r.exc
            /\ IF r.exc # NoExc
               THEN pc' = "except" /\ UNCHANGED <<key_idx, results>>
               ELSE /\ results' = dict_set(results, tag_keys[key_idx], r.ret)
                    /\ key_idx' = key_idx + 1
                    /\ pc' = IF key_idx < Len(tag_keys) THEN "get_values" ELSE "get_resources"
    /\ UNCHANGED <<out_ok, output, printed, pair, tag_keys, resources, missing, std_values, invalid>>

\* line 169
MainGetResources ==
    /\ pc = "get_resources"
    /\ \E o \in WhenInvoked(disk, PairSession(pair), get_resources, NoKwargs,
                            MainOutcomes("ResourceTagMappingList", <<Res(arn1, <<Project, Name>>)>>)) :
       \E r \in {api_get_resources(disk, PairSession(pair), o)} :
            /\ disk' = r.disk
            /\ lastCall' = CallRecord(disk, firstRet, PairSession(pair), get_resources, NoKwargs, "get_resources", r)
            /\ firstRet' = FirstRet(firstRet, PairSession(pair), get_resources, NoKwargs, r)
            /\ exc' = r.exc
            /\ IF r.exc # NoExc
               THEN pc' = "except" /\ UNCHANGED resources
               ELSE pc' = "report" /\ resources' = r.ret
    /\ UNCHANGED <<out_ok, output, printed, pair, tag_keys, key_idx, results, missing,
                   std_values, invalid>>

\* lines 170-180: the policy checks and the reports of the pair
MainReport ==
    /\ pc = "report"
    /\ LET label == PairAt(pair).profile \o <<"_">> \o PairAt(pair).region
           missing_required_tags == get_missing_required_tags(resources)
           w1 == write_to_yaml(output, out_ok, label,
                    [k \in {n_missing_required_tags} |-> missing_required_tags])
           standard_tags_values == [tag \in Range(STANDARD_TAGS) |-> dict_get(results, tag)]
           invalid_standard_tag_values == get_invalid_standard_tag_values(standard_tags_values)
           w2 == write_to_yaml(w1.output, out_ok, label,
                    [k \in {n_standard_tags_values, n_invalid_standard_tag_values} |->
                        IF k = n_standard_tags_values THEN standard_tags_values
                        ELSE invalid_standard_tag_values])
       IN /\ missing' = missing_required_tags
          /\ IF w1.exc # NoExc
             THEN /\ exc' = w1.exc
                  /\ pc' = "except"
                  /\ UNCHANGED <<output, std_values, invalid, pair>>
             ELSE /\ std_values' = standard_tags_values
                  /\ IF DOMAIN standard_tags_values = {}
                     THEN /\ output' = w1.output
                          /\ exc' = NoExc
                          /\ pc' = AfterPair(pair)
                          /\ pair' = pair + 1
                          /\ UNCHANGED invalid
                     ELSE /\ invalid' = invalid_standard_tag_values
                          /\ output' = w2.output
                          /\ exc' = w2.exc
                          /\ pc' = IF w2.exc # NoExc THEN "except" ELSE AfterPair(pair)
                          /\ pair' = IF w2.exc # NoExc THEN pair ELSE pair + 1
    /\ UNCHANGED <<disk, out_ok, printed, tag_keys, key_idx, results, resources, lastCall, firstRet>>

\* lines 181-184: the except clause
MainExcept ==
    /\ pc = "except"
    /\ IF ~has_response(exc)
       THEN /\ exc' = AttributeErrorIn(exc)
            /\ pc' = "aborted"
            /\ UNCHANGED <<printed, pair>>
       ELSE /\ printed' = IF is_suppressed(error_code_of(exc)) THEN printed
                          ELSE Append(printed, ExceptionLine(pair, exc))
            /\ exc' = NoExc
            /\ pc' = AfterPair(pair)
            /\ pair' = pair + 1
    /\ UNCHANGED <<disk, out_ok, output, tag_keys, key_idx, results, resources, missing,
                   std_values, invalid, lastCall, firstRet>>

Next ==
    \/ BeginPair
    \/ MainGetKeys
    \/ MainGetValues
    \/ MainGetResources
    \/ MainReport
    \/ MainExcept

Spec == Init /\ [][Next]_vars

----------------------------------------------------------------------------
(* SpecMissing: get_missing_required_tags on bounded inputs *)

ARNs == {arn1, arn2, arn3}

\* the tag key sets of the resources: every set of required tags, and some
\* with a tag that is not required
TagKeySets ==
    (SUBSET Range(REQUIRED_TAGS)) \cup {{Management}, {Management, Name, Project}}

Reversed(seq) == [i \in 1..Len(seq) |-> seq[Len(seq) + 1 - i]]

\* the tag keys of a resource, in the reverse of the STANDARD_TAGS order
TagKeysOf(S) == SelectSeq(Reversed(STANDARD_TAGS), LAMBDA k : k \in S)

TagKeyLists == {TagKeysOf(S) : S \in TagKeySets}

ResourceUniverse == {Res(arn, keys) : arn \in ARNs, keys \in TagKeyLists}

\* lists of at most MaxResources resources; an ARN identifies one resource
ResourceLists ==
    UNION {
        {rs \in [1..n -> ResourceUniverse] :
            \A i, j \in 1..n : i # j => rs[i].ResourceARN # rs[j].ResourceARN}
        : n \in 0..MaxResources}

InitMissing ==
    /\ resources \in ResourceLists
    /\ pc = "input"
    /\ missing = EmptyDict
    /\ disk = EmptyDisk
    /\ out_ok = TRUE
    /\ output = EmptyDict
    /\ printed = <<>>
    /\ pair = 0
    /\ tag_keys = <<>>
    /\ key_idx = 0
    /\ results = EmptyDict
    /\ std_values = EmptyDict
    /\ invalid = None
    /\ exc = NoExc
    /\ lastCall = NoCall
    /\ firstRet = EmptyDict

CheckMissing ==
    /\ pc = "input"
    /\ missing' = get_missing_required_tags(resources)
    /\ pc' = "checked"
    /\ UNCHANGED <<disk, out_ok, output, printed, pair, tag_keys, key_idx, results,
                   resources, std_values, invalid, exc, lastCall, firstRet>>

SpecMissing == InitMissing /\ [][CheckMissing]_vars

----------------------------------------------------------------------------
(* SpecInvalid: get_invalid_standard_tag_values on bounded inputs *)

GoodEmail == <<"g","o","o","d","@","e","x","a","m","p","l","e",".","c","o","m">>
BadEmail == <<"n","o","t","-","a","n","-","e","m","a","i","l">>

ListsOver(S) == UNION {[1..n -> S] : n \in 0..MaxValues}

\* None, or a list of values
OptionalLists(S) == {None} \cup {Some(l) : l \in ListsOver(S)}

\* standard_tags_values with and without the two tags the rules read
TagValueInputs ==
    {[k \in D |-> IF k = Contact THEN c ELSE e] :
        D \in SUBSET {Contact, Environments},
        c \in OptionalLists({GoodEmail, BadEmail}),
        e \in OptionalLists({staging, qa})}

InitInvalid ==
    /\ std_values \in TagValueInputs
    /\ pc = "input"
    /\ invalid = None
    /\ resources = <<>>
    /\ missing = EmptyDict
    /\ disk = EmptyDisk
    /\ out_ok = TRUE
    /\ output = EmptyDict
    /\ printed = <<>>
    /\ pair = 0
    /\ tag_keys = <<>>
    /\ key_idx = 0
    /\ results = EmptyDict
    /\ exc = NoExc
    /\ lastCall = NoCall
    /\ firstRet = EmptyDict

CheckInvalid ==
    /\ pc = "input"
    /\ invalid' = get_invalid_standard_tag_values(std_values)
    /\ pc' = "checked"
    /\ UNCHANGED <<disk, out_ok, output, printed, pair, tag_keys, key_idx, results,
                   resources, missing, std_values, exc, lastCall, firstRet>>

SpecInvalid == InitInvalid /\ [][CheckInvalid]_vars

----------------------------------------------------------------------------
(* Claims about the disk cache and the facade, under SpecApi *)

\* C1: once a call of the cached fetcher with some identity has completed,
\* every later call with that identity returns the data the first call
\* returned and does not run the paginated SDK call again.
C1_RepeatedCallReadsThrough ==
    lastCall.repeat =>
        /\ lastCall.exc = NoExc
        /\ ~lastCall.computed
        /\ lastCall.value = firstRet[lastCall.id.val]

\* a repeated call that returned a non-empty list
C1_Witness ==
    /\ lastCall.repeat
    /\ ~lastCall.computed
    /\ lastCall.value # <<>>

IsAscending(seq) == \A i \in 1..(Len(seq) - 1) : ~str_lt(seq[i + 1], seq[i])

Count(seq, x) == Cardinality({i \in 1..Len(seq) : seq[i] = x})

IsPermutation(a, b) ==
    /\ Len(a) = Len(b)
    /\ \A x \in Range(a) \cup Range(b) : Count(a, x) = Count(b, x)

\* C6: get_keys and get_values return the fetched items in ascending
\* lexicographic order, whatever the order of the pages, freshly fetched or
\* served from the cache.
C6_KeysAndValuesAscending ==
    (lastCall.facade \in {"get_keys", "get_values"} /\ lastCall.exc = NoExc) =>
        /\ IsAscending(lastCall.ret)
        /\ IsPermutation(lastCall.ret, lastCall.value)

\* get_values served from a cache entry that holds the values out of order
C6_Witness ==
    /\ lastCall.facade = "get_values"
    /\ lastCall.exc = NoExc
    /\ lastCall.hit
    /\ ~IsAscending(lastCall.value)

\* C7: a cache file that exists keeps its content: no facade call overwrites,
\* updates or deletes it.
C7_CacheEntriesNeverChange ==
    [][\A p \in DOMAIN disk : p \in DOMAIN disk' /\ disk'[p] = disk[p]]_vars

\* every cache file of the session is written and a later call was served
\* from one of them
C7_Witness ==
    /\ Cardinality(DOMAIN disk) = 3
    /\ lastCall.hit
    /\ lastCall.repeat

\* C9: two calls of the cached fetcher whose identities differ never share a
\* cache file.
C9_IdentitiesNeverShareFile ==
    \A a, b \in DOMAIN firstRet : a # b => identity_path(a) # identity_path(b)

\* C10: a call whose paginated fetch fails leaves the cache files as they
\* were and creates no file for its identity; a file is written only by a
\* fetch that ran to exhaustion, and holds its whole result; a call that
\* finds no file runs the fetch.
C10_FailedFetchWritesNothing ==
    [][/\ (lastCall'.computed /\ lastCall'.exc # NoExc) =>
            /\ disk' = disk
            /\ identity_path(lastCall'.id.val) \notin DOMAIN disk'
       /\ disk' # disk =>
            /\ lastCall'.computed
            /\ lastCall'.exc = NoExc
            /\ disk' = write_to_file(disk, identity_path(lastCall'.id.val), lastCall'.value)
       /\ (~lastCall'.id.none /\ identity_path(lastCall'.id.val) \notin DOMAIN disk) =>
            lastCall'.computed]_vars

\* a fetch failed while other cache files exist, and its file does not
C10_Witness ==
    /\ lastCall.computed
    /\ lastCall.exc # NoExc
    /\ disk # EmptyDisk
    /\ identity_path(lastCall.id.val) \notin DOMAIN disk

----------------------------------------------------------------------------
(* Claims about the driver, under Spec *)

Headers == SelectSeq(printed, LAMBDA l : l.kind = "header")

\* the pairs are attempted in the order of the cross product, none skipped
AttemptedInOrder ==
    /\ Len(Headers) = IF pc \in {"for", "done"} THEN pair - 1 ELSE pair
    /\ \A i \in 1..Len(Headers) : Headers[i] = HeaderLine(i)
    /\ pc = "done" => pair = NumPairs + 1

\* C2: an "AccessDeniedException" provider error of one pair does not abort
\* the run: the loop goes on with the next pair of the cross product, in
\* order, and prints nothing for the error.
C2_AccessDeniedIsSuppressed ==
    /\ [][(pc = "except" /\ exc = AccessDenied) =>
            /\ pc' = AfterPair(pair)
            /\ pair' = pair + 1
            /\ printed' = printed]_vars
    /\ [](AttemptedInOrder /\ (pc = "aborted" => exc.context # AccessDenied))

\* the first pair was denied access and the loop is at the second pair with
\* nothing but the header printed
C2_Witness ==
    /\ pc = "for"
    /\ pair = 2
    /\ lastCall.exc = AccessDenied
    /\ printed = <<HeaderLine(1)>>

LocalErrors == {JSONDecodeError, PermissionError}

\* C3: any error of a pair other than an access-denied provider error (and
\* other than the local I/O and deserialization errors of C8) is caught,
\* printed with profile, region and error, and the loop goes on with the
\* next pair.
C3_OtherErrorsArePrinted ==
    [][(pc = "except" /\ exc \notin ({AccessDenied} \cup LocalErrors)) =>
            /\ pc' = AfterPair(pair)
            /\ pair' = pair + 1
            /\ printed' = Append(printed, ExceptionLine(pair, exc))]_vars

----------------------------------------------------------------------------
(* Claims about the policy checks, under SpecInvalid and SpecMissing *)

InvalidOf(tag, bad(_)) ==
    IF tag \in DOMAIN std_values /\ ~std_values[tag].none
    THEN SelectSeq(std_values[tag].val, bad)
    ELSE <<>>

\* C4: get_invalid_standard_tag_values returns a map with, under "Contact",
\* exactly the Contact values that are no valid email, under "Environments",
\* exactly the values outside {staging, production, dev}, and no entry for a
\* tag that has no such value, is absent or None.  (A returned map m is
\* Some(m).)
C4_ReturnsInvalidValues ==
    pc = "checked" =>
        /\ ~invalid.none
        /\ LET bad_contacts == InvalidOf(Contact, LAMBDA c : ~is_valid_email(c))
               bad_envs == InvalidOf(Environments, LAMBDA e : e \notin {staging, production, dev})
           IN /\ DOMAIN invalid.val =
                    (IF bad_contacts # <<>> THEN {Contact} ELSE {})
                    \cup (IF bad_envs # <<>> THEN {Environments} ELSE {})
              /\ bad_contacts # <<>> => invalid.val[Contact] = bad_contacts
              /\ bad_envs # <<>> => invalid.val[Environments] = bad_envs

RequiredPos(tag) == CHOOSE k \in 1..Len(REQUIRED_TAGS) : REQUIRED_TAGS[k] = tag

InRequiredOrder(m) ==
    \A i, j \in 1..Len(m) : i < j => RequiredPos(m[i]) < RequiredPos(m[j])

\* C5: get_missing_required_tags maps the ARN of each resource to exactly
\* the required tags that are not among its tag keys, in the order of
\* REQUIRED_TAGS, and has no entry for a resource that has them all (lists
\* of resources with pairwise different ARNs).
C5_MissingRequiredTags ==
    pc = "checked" =>
        /\ DOMAIN missing \subseteq {resources[i].ResourceARN : i \in 1..Len(resources)}
        /\ \A i \in 1..Len(resources) :
            LET arn == resources[i].ResourceARN
                keys == {resources[i].Tags[j].Key : j \in 1..Len(resources[i].Tags)}
                lacking == Range(REQUIRED_TAGS) \ keys
            IN IF lacking = {}
               THEN arn \notin DOMAIN missing
               ELSE /\ arn \in DOMAIN missing
                    /\ Range(missing[arn]) = lacking
                    /\ Len(missing[arn]) = Cardinality(lacking)
                    /\ InRequiredOrder(missing[arn])

\* a resource tagged Project and Name lacks Environment, Department and
\* Contact, and another resource has every required tag
C5_Witness ==
    /\ pc = "checked"
    /\ Len(resources) = 2
    /\ \E arn \in DOMAIN missing : missing[arn] = <<Environment, Department, Contact>>
    /\ Cardinality(DOMAIN missing) = 1

====
